---- MODULE Spec2Model ----
(***************************************************************************)
(* SortChineseName (src/src/main.rs): names are read from names.txt,      *)
(* reversed, sorted with compare_names and written to out.txt.            *)
(*                                                                         *)
(* A Rust String is modelled as the sequence of its chars (Unicode code   *)
(* points); str::len() is the UTF-8 byte length, the sum of the chars'    *)
(* encoded widths.  An ordering code (the `order` of data.json) is        *)
(* modelled as the sequence of its bytes.                                 *)
(***************************************************************************)
EXTENDS Integers, Sequences, FiniteSets, TLC

VARIABLES
    pc,                     \* position of main, or "call"/"returned" for a single function call
    word_dict,              \* HashMap<String, String> built by load_word_dict
    compound_surnames_set,  \* HashSet<String> built by load_compound_surnames_set
    names,                  \* Vec<String> of main, mutated in place
    names_txt,              \* the lines names.txt held when it was read
    out_txt,                \* the lines written to out.txt so far
    out_opened,             \* out.txt has been created/truncated by this run
    done,                   \* steps of main that completed successfully
    failed_at,              \* step of main that returned Err, or "none"
    a, b, c,                \* arguments of the function under call
    res                     \* outcome of the function under call

vars == <<pc, word_dict, compound_surnames_set, names, names_txt, out_txt,
          out_opened, done, failed_at, a, b, c, res>>

----------------------------------------------------------------------------
(* Bounds and input alphabets *)

MaxLen == 2      \* longest string handed to compare_chars
MaxNameLen == 3  \* longest name handed to split_name and compare_names
MaxLines == 3    \* most lines of names.txt

\* 'a', 'b' (1 byte each in UTF-8) and U+6B27 (3 bytes)
Chars == {97, 98, 27431}

Strs == UNION {[1..k -> Chars] : k \in 0..MaxLen}
NonEmptyStrs == Strs \ {<<>>}

NamesOrEmpty == UNION {[1..k -> Chars] : k \in 0..MaxNameLen}
Names == NamesOrEmpty \ {<<>>}

\* stored codes "5", "12", "13", "66666"
StoredCodes == {<<53>>, <<49, 50>>, <<49, 51>>, <<54, 54, 54, 54, 54>>}

Dicts == UNION {[K -> StoredCodes] : K \in SUBSET {<<ch>> : ch \in Chars}}

SurnameCandidates ==
    {<<>>, <<27431>>, <<27431, 98>>, <<97, 97>>, <<97, 98>>, <<27431, 97, 98>>}

SurnameSets == SUBSET SurnameCandidates

\* the small tables and sets used where two or three names are compared
NameDicts == UNION {[K -> {<<53>>}] : K \in SUBSET {<<98>>, <<27431>>}}
NameSets == SUBSET {<<27431, 98>>, <<97, 97>>, <<97, 98>>}

----------------------------------------------------------------------------
(* std::cmp::Ordering and the std comparisons the program calls *)

LESS == "Less"
EQUAL == "Equal"
GREATER == "Greater"

\* usize::cmp
cmp_usize(x, y) == IF x < y THEN LESS ELSE IF x > y THEN GREATER ELSE EQUAL

\* String::cmp: byte-wise lexicographic, a proper prefix is Less
RECURSIVE cmp_str(_, _)
cmp_str(x, y) ==
    IF x = <<>> /\ y = <<>> THEN EQUAL
    ELSE IF x = <<>> THEN LESS
    ELSE IF y = <<>> THEN GREATER
    ELSE IF Head(x) # Head(y) THEN cmp_usize(Head(x), Head(y))
    ELSE cmp_str(Tail(x), Tail(y))

\* char::len_utf8
len_utf8(ch) ==
    IF ch < 128 THEN 1 ELSE IF ch < 2048 THEN 2 ELSE IF ch < 65536 THEN 3 ELSE 4

\* str::len: length in bytes
RECURSIVE str_len(_)
str_len(s) == IF s = <<>> THEN 0 ELSE len_utf8(Head(s)) + str_len(Tail(s))

\* char::is_whitespace (Unicode White_Space)
is_whitespace(ch) ==
    \/ ch \in 9..13
    \/ ch \in {32, 133, 160, 5760, 8232, 8233, 8239, 8287, 12288}
    \/ ch \in 8192..8202

\* str::trim
RECURSIVE trim_start(_)
trim_start(s) ==
    IF s # <<>> /\ is_whitespace(Head(s)) THEN trim_start(Tail(s)) ELSE s

RECURSIVE trim_end(_)
trim_end(s) ==
    IF s # <<>> /\ is_whitespace(s[Len(s)])
    THEN trim_end(SubSeq(s, 1, Len(s) - 1))
    ELSE s

trim(s) == trim_end(trim_start(s))

----------------------------------------------------------------------------
(* compare_chars, main.rs 75-101 *)

default_code == <<54, 54, 54, 54, 54>>    \* "66666"

\* a mutant: an absent character gets the empty code
lookup_empty_default(dict, ch) ==
    IF <<ch>> \in DOMAIN dict THEN dict[<<ch>>] ELSE <<>>

\* dict.get(&c_str).unwrap_or(&default_code)
lookup(dict, ch) ==
    IF <<ch>> \in DOMAIN dict THEN dict[<<ch>>] ELSE default_code

\* a mutant: codes compared lexicographically only
cmp_codes_lex_only(code1, code2) == cmp_str(code1, code2)

\* the match on code1.len().cmp(&code2.len()), then code1.cmp(code2)
cmp_codes(code1, code2) ==
    LET by_len == cmp_usize(Len(code1), Len(code2))
    IN  IF by_len = EQUAL THEN cmp_str(code1, code2) ELSE by_len

\* the loop over a.chars().zip(b.chars()) from position i, then a.len().cmp(&b.len())
RECURSIVE compare_chars_from(_, _, _, _)
compare_chars_from(x, y, dict, i) ==
    IF i > Len(x) \/ i > Len(y)
    THEN cmp_usize(str_len(x), str_len(y))
    ELSE LET ord == cmp_codes(lookup(dict, x[i]), lookup(dict, y[i]))
         IN  IF ord = EQUAL THEN compare_chars_from(x, y, dict, i + 1) ELSE ord

compare_chars(x, y, dict) == compare_chars_from(x, y, dict, 1)

----------------------------------------------------------------------------
(* split_name, main.rs 59-73 *)

Returned(v) == [outcome |-> "returned", value |-> v]
Panicked == [outcome |-> "panicked", value |-> "unwrap on None"]
NoResult == [op |-> "none", outcome |-> "none", value |-> <<>>]
Result(op, r) == [op |-> op, outcome |-> r.outcome, value |-> r.value]

\* a mutant: the compound-surname set is never consulted
split_name_single_only(name, set) ==
    IF name = <<>> THEN Panicked
    ELSE Returned(<<<<Head(name)>>, Tail(name)>>)

split_name(name, set) ==
    IF /\ Len(name) >= 2
       /\ <<name[1], name[2]>> \in set
    THEN Returned(<<<<name[1], name[2]>>, Tail(Tail(name))>>)
    ELSE IF name = <<>>
         THEN Panicked                                  \* chars.next().unwrap() on None
         ELSE Returned(<<<<Head(name)>>, Tail(name)>>)

----------------------------------------------------------------------------
(* compare_names, main.rs 103-120 *)

\* a mutant: the given names are ignored
compare_names_surname_only(x, y, set, dict) ==
    LET sx == split_name(x, set)
        sy == split_name(y, set)
    IN  IF sx.outcome = "panicked" \/ sy.outcome = "panicked"
        THEN Panicked
        ELSE Returned(compare_chars(sx.value[1], sy.value[1], dict))

compare_names(x, y, set, dict) ==
    LET sx == split_name(x, set)
        sy == split_name(y, set)
    IN  IF sx.outcome = "panicked" \/ sy.outcome = "panicked"
        THEN Panicked
        ELSE LET by_surname == compare_chars(sx.value[1], sy.value[1], dict)
             IN  IF by_surname = EQUAL
                 THEN Returned(compare_chars(sx.value[2], sy.value[2], dict))
                 ELSE Returned(by_surname)

----------------------------------------------------------------------------
(* main, main.rs 13-31, and the loaders and writer it calls *)

Ok(v) == [ok |-> TRUE, err |-> "none", val |-> v]
Err(e, unbound) == [ok |-> FALSE, err |-> e, val |-> unbound]

EmptyMap == [k \in {} |-> <<>>]

Unavailable == [state |-> "unavailable", content |-> <<>>]
Malformed == [state |-> "malformed", content |-> <<>>]
Readable(content) == [state |-> "readable", content |-> content]

\* data.json: an empty table; b -> "5"; a duplicated word and a two-character word
DataJsonFiles ==
    { Unavailable, Malformed,
      Readable(<<>>),
      Readable(<<[word |-> <<98>>, order |-> <<53>>]>>),
      Readable(<<[word |-> <<27431>>, order |-> <<49, 50>>],
                 [word |-> <<27431>>, order |-> <<53>>],
                 [word |-> <<97, 98>>, order |-> <<49, 51>>]>>) }

\* compound_surnames.txt as the lines BufRead::lines yields
SurnameFiles ==
    { Unavailable,
      Readable(<<>>),
      Readable(<< <<27431, 98, 32>> >>),
      Readable(<< <<97, 97>>, <<>> >>) }

\* lines of names.txt: blank, blanks only, padded and plain names
RawLines ==
    { <<>>, <<32>>, <<97>>, <<98, 32>>, <<12288, 27431>>, <<27431, 98>>, <<97, 97>> }

\* two files of 21 names, more than sort_by sorts by insertion: "a" twenty
\* times and then "b "; and "a\u6B27", nineteen times "a\u6B27b", "aaaa",
\* three names that compare_names orders in a cycle under the table b -> "5"
LongFiles ==
    { Readable([i \in 1..21 |-> IF i <= 20 THEN <<97>> ELSE <<98, 32>>]),
      Readable([i \in 1..21 |-> IF i = 1 THEN <<97, 27431>>
                                ELSE IF i = 21 THEN <<97, 97, 97, 97>>
                                ELSE <<97, 27431, 98>>]) }

NamesFiles ==
    {Unavailable} \cup LongFiles \cup
    {Readable(ls) : ls \in UNION {[1..k -> RawLines] : k \in 0..MaxLines}}

\* the ? operator of main: an Err returns from main
question_mark_ignored(r) == "continue"

question_mark(r) == IF r.ok THEN "continue" ELSE "return"

\* HashMap::from_iter over (word, order): a later record replaces an earlier one
RECURSIVE collect_map(_)
collect_map(records) ==
    IF records = <<>> THEN EmptyMap
    ELSE LET rest == collect_map(SubSeq(records, 1, Len(records) - 1))
             last == records[Len(records)]
         IN  [k \in DOMAIN rest \cup {last.word} |->
                 IF k = last.word THEN last.order ELSE rest[k]]

load_word_dict(file) ==
    IF file.state = "unavailable" THEN Err("SourceUnavailable", EmptyMap)
    ELSE IF file.state = "malformed" THEN Err("MalformedRecord", EmptyMap)
    ELSE Ok(collect_map(file.content))

load_compound_surnames_set(file) ==
    IF file.state # "readable" THEN Err("SourceUnavailable", {})
    ELSE Ok({trim(file.content[i]) : i \in DOMAIN file.content})

\* a mutant: the lines are not trimmed
load_names_untrimmed(file) ==
    IF file.state # "readable" THEN Err("SourceUnavailable", <<>>)
    ELSE Ok(SelectSeq(file.content, LAMBDA s : s # <<>>))

load_names(file) ==
    IF file.state # "readable" THEN Err("SourceUnavailable", <<>>)
    ELSE Ok(SelectSeq([i \in DOMAIN file.content |-> trim(file.content[i])],
                      LAMBDA s : s # <<>>))

\* a mutant: the list is left in input order
reverse_omitted(v) == v

\* Vec::reverse
reverse(v) == [i \in 1..Len(v) |-> v[Len(v) + 1 - i]]

\* insertion_sort_shift_left of std, which slice::sort_by runs on a slice of
\* at most 20 elements: the new element moves left while it is Less than
\* its left neighbour
RECURSIVE insert_tail(_, _, _, _)
insert_tail(sorted, x, set, dict) ==
    IF sorted = <<>> \/ compare_names(x, sorted[Len(sorted)], set, dict).value # LESS
    THEN Append(sorted, x)
    ELSE Append(insert_tail(SubSeq(sorted, 1, Len(sorted) - 1), x, set, dict),
                sorted[Len(sorted)])

RECURSIVE insertion_sort(_, _, _)
insertion_sort(v, set, dict) ==
    IF Len(v) <= 1 THEN v
    ELSE insert_tail(insertion_sort(SubSeq(v, 1, Len(v) - 1), set, dict),
                     v[Len(v)], set, dict)

\* the closure handed to sort_by is a total order on the elements of v:
\* swapping the arguments reverses the result, and the order is transitive
is_total_order(v, set, dict) ==
    LET cmp(x, y) == compare_names(x, y, set, dict).value
        E == {v[i] : i \in DOMAIN v}
    IN  /\ \A x \in E, y \in E :
              cmp(x, y) = (IF cmp(y, x) = LESS THEN GREATER
                           ELSE IF cmp(y, x) = GREATER THEN LESS ELSE EQUAL)
        /\ \A x \in E, y \in E, z \in E :
              (cmp(x, y) # GREATER /\ cmp(y, z) # GREATER) => cmp(x, z) # GREATER

\* v without the first occurrence of e
RECURSIVE remove_first(_, _)
remove_first(v, e) ==
    IF v = <<>> THEN <<>>
    ELSE IF Head(v) = e THEN Tail(v)
    ELSE <<Head(v)>> \o remove_first(Tail(v), e)

\* every order of the elements of v
RECURSIVE permutations(_)
permutations(v) ==
    IF v = <<>> THEN {<<>>}
    ELSE UNION { {<<e>> \o p : p \in permutations(remove_first(v, e))} :
                 e \in {v[i] : i \in DOMAIN v} }

\* slice::sort_by(|a, b| compare_names(a, b, ..)): the outcomes of the call.
\* Up to 20 elements the slice is sorted by insertion; above, a total order
\* gives the one stable sorted result, and with a closure that is not a
\* total order std either panics ("user-provided comparison function does
\* not correctly implement a total order") or leaves the elements in an
\* unspecified order.  Every element of a slice of two or more is compared
\* at least once, and a comparison with an empty name panics in split_name:
\* the call then never returns, and above 20 elements std's own panic may
\* come first when the closure is not a total order on the other names.
NotTotalOrder == [outcome |-> "panicked", value |-> "not a total order"]

sort_by(v, set, dict) ==
    LET named == SelectSeq(v, LAMBDA s : s # <<>>)
        small_or_total == Len(v) <= 20 \/ is_total_order(named, set, dict)
    IN  IF Len(v) >= 2 /\ \E i \in DOMAIN v : v[i] = <<>>
        THEN IF small_or_total THEN {Panicked} ELSE {Panicked, NotTotalOrder}
        ELSE IF small_or_total
        THEN {Returned(insertion_sort(v, set, dict))}
        ELSE {NotTotalOrder} \cup {Returned(p) : p \in permutations(v)}

Idle ==
    /\ names = <<>>
    /\ names_txt = <<>>
    /\ out_txt = <<>>
    /\ out_opened = FALSE
    /\ done = {}
    /\ failed_at = "none"

NoCall == a = <<>> /\ b = <<>> /\ c = <<>> /\ res = NoResult

Init ==
    /\ pc = "load_word_dict"
    /\ word_dict = EmptyMap
    /\ compound_surnames_set = {}
    /\ Idle
    /\ NoCall

Fail(step) ==
    /\ pc' = "err"
    /\ failed_at' = step
    /\ UNCHANGED <<word_dict, compound_surnames_set, names, names_txt, out_txt,
                   out_opened, done, a, b, c, res>>

Completed(step, r) == IF r.ok THEN done \cup {step} ELSE done

LoadWordDict ==
    /\ pc = "load_word_dict"
    /\ \E file \in DataJsonFiles :
         LET r == load_word_dict(file)
         IN  IF question_mark(r) = "return"
             THEN Fail("load_word_dict")
             ELSE /\ word_dict' = r.val
                  /\ done' = Completed("load_word_dict", r)
                  /\ pc' = "load_compound_surnames_set"
                  /\ UNCHANGED <<compound_surnames_set, names, names_txt, out_txt,
                                 out_opened, failed_at, a, b, c, res>>

LoadCompoundSurnamesSet ==
    /\ pc = "load_compound_surnames_set"
    /\ \E file \in SurnameFiles :
         LET r == load_compound_surnames_set(file)
         IN  IF question_mark(r) = "return"
             THEN Fail("load_compound_surnames_set")
             ELSE /\ compound_surnames_set' = r.val
                  /\ done' = Completed("load_compound_surnames_set", r)
                  /\ pc' = "load_names"
                  /\ UNCHANGED <<word_dict, names, names_txt, out_txt,
                                 out_opened, failed_at, a, b, c, res>>

LoadNames ==
    /\ pc = "load_names"
    /\ \E file \in NamesFiles :
         LET r == load_names(file)
         IN  IF question_mark(r) = "return"
             THEN Fail("load_names")
             ELSE /\ names' = r.val
                  /\ names_txt' = file.content
                  /\ done' = Completed("load_names", r)
                  /\ pc' = "reverse"
                  /\ UNCHANGED <<word_dict, compound_surnames_set, out_txt,
                                 out_opened, failed_at, a, b, c, res>>

ReverseNames ==
    /\ pc = "reverse"
    /\ names' = reverse(names)
    /\ done' = done \cup {"reverse"}
    /\ pc' = "sort"
    /\ UNCHANGED <<word_dict, compound_surnames_set, names_txt, out_txt,
                   out_opened, failed_at, a, b, c, res>>

SortNames ==
    /\ pc = "sort"
    /\ \E r \in sort_by(names, compound_surnames_set, word_dict) :
         IF r.outcome = "panicked"
         THEN /\ pc' = "panicked"
              /\ UNCHANGED <<names, done>>
         ELSE /\ names' = r.value
              /\ done' = done \cup {"sort"}
              /\ pc' = "create_output"
    /\ UNCHANGED <<word_dict, compound_surnames_set, names_txt, out_txt,
                   out_opened, failed_at, a, b, c, res>>

\* File::create(path)?
CreateOutput ==
    /\ pc = "create_output"
    /\ \E r \in {Ok(<<>>), Err("CreateFailed", <<>>)} :
         IF question_mark(r) = "return"
         THEN Fail("write_output")
         ELSE /\ out_opened' = TRUE
              /\ out_txt' = <<>>
              /\ pc' = "write_lines"
              /\ UNCHANGED <<word_dict, compound_surnames_set, names, names_txt,
                             done, failed_at, a, b, c, res>>

\* writeln!(file, "{}", name)? for the next name
WriteLine ==
    /\ pc = "write_lines"
    /\ Len(out_txt) < Len(names)
    /\ \E r \in {Ok(<<>>), Err("WriteFailed", <<>>)} :
         IF question_mark(r) = "return"
         THEN Fail("write_output")
         ELSE /\ out_txt' = Append(out_txt, names[Len(out_txt) + 1])
              /\ UNCHANGED <<pc, word_dict, compound_surnames_set, names, names_txt,
                             out_opened, done, failed_at, a, b, c, res>>

\* the loop of write_output is over; main returns Ok(())
Finish ==
    /\ pc = "write_lines"
    /\ Len(out_txt) = Len(names)
    /\ done' = done \cup {"write_output"}
    /\ pc' = "ok"
    /\ UNCHANGED <<word_dict, compound_surnames_set, names, names_txt, out_txt,
                   out_opened, failed_at, a, b, c, res>>

Next ==
    \/ LoadWordDict
    \/ LoadCompoundSurnamesSet
    \/ LoadNames
    \/ ReverseNames
    \/ SortNames
    \/ CreateOutput
    \/ WriteLine
    \/ Finish

Spec == Init /\ [][Next]_vars

----------------------------------------------------------------------------
(* Single calls of the pure functions on bounded inputs *)

Return(op, r) ==
    /\ res' = Result(op, r)
    /\ pc' = "returned"
    /\ UNCHANGED <<word_dict, compound_surnames_set, names, names_txt, out_txt,
                   out_opened, done, failed_at, a, b, c>>

InitChars ==
    /\ pc = "call"
    /\ a \in Strs /\ b \in Strs /\ c = <<>>
    /\ word_dict \in Dicts
    /\ compound_surnames_set = {}
    /\ res = NoResult
    /\ Idle

CallCompareChars ==
    /\ pc = "call"
    /\ Return("compare_chars", Returned(compare_chars(a, b, word_dict)))

SpecChars == InitChars /\ [][CallCompareChars]_vars

InitSplit ==
    /\ pc = "call"
    /\ a \in NamesOrEmpty /\ b = <<>> /\ c = <<>>
    /\ word_dict = EmptyMap
    /\ compound_surnames_set \in SurnameSets
    /\ res = NoResult
    /\ Idle

CallSplitName ==
    /\ pc = "call"
    /\ Return("split_name", split_name(a, compound_surnames_set))

SpecSplit == InitSplit /\ [][CallSplitName]_vars

InitNames ==
    /\ pc = "call"
    /\ a \in Names /\ b \in Names /\ c = <<>>
    /\ word_dict \in NameDicts
    /\ compound_surnames_set \in NameSets
    /\ res = NoResult
    /\ Idle

CallCompareNames ==
    /\ pc = "call"
    /\ Return("compare_names", compare_names(a, b, compound_surnames_set, word_dict))

SpecNames == InitNames /\ [][CallCompareNames]_vars

\* the comparisons a sort may make among three elements
InitOrder ==
    /\ pc = "call"
    /\ a \in NonEmptyStrs /\ b \in NonEmptyStrs /\ c \in NonEmptyStrs
    /\ word_dict \in NameDicts
    /\ compound_surnames_set \in NameSets
    /\ res = NoResult
    /\ Idle

NamesCmp(x, y) == compare_names(x, y, compound_surnames_set, word_dict).value
CharsCmp(x, y) == compare_chars(x, y, word_dict)

CallOrderNames ==
    /\ pc = "call"
    /\ Return("compare_names",
              Returned([aa |-> NamesCmp(a, a), ab |-> NamesCmp(a, b), ba |-> NamesCmp(b, a),
                        bc |-> NamesCmp(b, c), ac |-> NamesCmp(a, c)]))

CallOrderChars ==
    /\ pc = "call"
    /\ Return("compare_chars",
              Returned([aa |-> CharsCmp(a, a), ab |-> CharsCmp(a, b), ba |-> CharsCmp(b, a),
                        bc |-> CharsCmp(b, c), ac |-> CharsCmp(a, c)]))

NextOrder == CallOrderNames \/ CallOrderChars

SpecOrder == InitOrder /\ [][NextOrder]_vars

----------------------------------------------------------------------------
(* Properties *)

Min(S) == CHOOSE x \in S : \A y \in S : x <= y
Max(S) == CHOOSE x \in S : \A y \in S : x >= y
Range(s) == {s[i] : i \in DOMAIN s}
Count(s, e) == Cardinality({i \in DOMAIN s : s[i] = e})
Restrict(s, S) == SelectSeq(s, LAMBDA e : e \in S)
Reversed(s) == [i \in 1..Len(s) |-> s[Len(s) + 1 - i]]

\* the code compare_chars uses for a character under the current table
Code(ch) == IF <<ch>> \in DOMAIN word_dict THEN word_dict[<<ch>>] ELSE <<54, 54, 54, 54, 54>>

\* positions compare_chars compares, and those where the two codes differ
Compared == 1..(IF Len(a) < Len(b) THEN Len(a) ELSE Len(b))
Differing == {i \in Compared : Code(a[i]) # Code(b[i])}

\* x is lexicographically smaller than y, for codes of one length
LexSmaller(x, y) ==
    \E k \in 1..Len(x) : x[k] < y[k] /\ \A j \in 1..(k - 1) : x[j] = y[j]

\* the order of two different codes: by length, then lexicographically
CodeOrder(x, y) ==
    IF Len(x) < Len(y) THEN LESS
    ELSE IF Len(x) > Len(y) THEN GREATER
    ELSE IF LexSmaller(x, y) THEN LESS ELSE GREATER

CalledChars == res.op = "compare_chars" /\ pc = "returned"

\* C1: compare_chars returns at the first compared position whose codes
\* differ: the shorter code is Less whatever the contents, codes of equal
\* length are ordered lexicographically, and later positions do not matter.
C1_FirstDifferenceDecides ==
    (CalledChars /\ Differing # {}) =>
        /\ res.outcome = "returned"
        /\ res.value = CodeOrder(Code(a[Min(Differing)]), Code(b[Min(Differing)]))

\* "5" against "12" at position 1 gives Less although position 2 says Greater
C1_Witness ==
    /\ CalledChars
    /\ Len(a) = 2 /\ Len(b) = 2
    /\ Code(a[1]) = <<53>> /\ Code(b[1]) = <<49, 50>>
    /\ Code(a[2]) = <<49, 51>> /\ Code(b[2]) = <<49, 50>>
    /\ res.value = LESS

\* C2: when the codes tie at every compared position, compare_chars is
\* decided by the lengths counted in characters: fewer characters is Less,
\* and Equal exactly when the character counts are the same.
C2_TieFallsBackToCharCount ==
    (CalledChars /\ Differing = {}) => res.value = cmp_usize(Len(a), Len(b))

\* C7: a character without an entry is compared by the code "66666", exactly
\* as if that code were stored for it; a call never fails for a missing code.
Completed66666(dict) ==
    [k \in {<<ch>> : ch \in Chars} |->
        IF k \in DOMAIN dict THEN dict[k] ELSE <<54, 54, 54, 54, 54>>]

SentinelAt(ch) ==
    <<ch>> \notin DOMAIN word_dict \/ word_dict[<<ch>>] = <<54, 54, 54, 54, 54>>

C7_MissingCodeIsDefault ==
    CalledChars =>
        /\ res.outcome = "returned"
        /\ res.value = compare_chars(a, b, Completed66666(word_dict))
        /\ ( /\ Len(a) = Len(b)
             /\ str_len(a) = str_len(b)
             /\ \A i \in Compared : SentinelAt(a[i]) /\ SentinelAt(b[i]) )
           => res.value = EQUAL

\* an absent character ties with a stored "66666" and with another absent
\* character, and the next position decides
C7_Witness ==
    /\ CalledChars
    /\ Len(a) = 2 /\ Len(b) = 2
    /\ <<a[1]>> \notin DOMAIN word_dict
    /\ <<b[1]>> \in DOMAIN word_dict /\ word_dict[<<b[1]>>] = <<54, 54, 54, 54, 54>>
    /\ <<a[2]>> \notin DOMAIN word_dict
    /\ <<b[2]>> \in DOMAIN word_dict /\ word_dict[<<b[2]>>] = <<53>>
    /\ res.value = GREATER

CalledSplit == res.op = "split_name" /\ pc = "returned"

\* C3: for a non-empty name, split_name returns (first two characters, rest)
\* when the two-character prefix is in the set, else (first character, rest).
C3_SplitContract ==
    (CalledSplit /\ a # <<>>) =>
        /\ res.outcome = "returned"
        /\ res.value =
             IF Len(a) >= 2 /\ SubSeq(a, 1, 2) \in compound_surnames_set
             THEN <<SubSeq(a, 1, 2), SubSeq(a, 3, Len(a))>>
             ELSE <<SubSeq(a, 1, 1), SubSeq(a, 2, Len(a))>>
        /\ (Len(a) = 1 => res.value = <<a, <<>>>>)
        /\ (Len(a) = 2 /\ a \in compound_surnames_set => res.value = <<a, <<>>>>)

\* a compound surname followed by one more character
C3_Witness ==
    /\ CalledSplit
    /\ Len(a) = 3
    /\ SubSeq(a, 1, 2) \in compound_surnames_set
    /\ res.value = <<SubSeq(a, 1, 2), <<a[3]>>>>

\* C6: an empty name handed to split_name is answered with the error value
\* EmptyNameError, not with a panic.
C6_EmptyNameIsAnError ==
    (CalledSplit /\ a = <<>>) =>
        /\ res.outcome = "returned"
        /\ res.value = "EmptyNameError"

CalledNames == res.op = "compare_names" /\ pc = "returned"

\* the surname a name splits into: its two-character prefix if that is a
\* compound surname, else its first character
SurnameLen(n) == IF Len(n) >= 2 /\ SubSeq(n, 1, 2) \in compound_surnames_set THEN 2 ELSE 1
Surname(n) == SubSeq(n, 1, SurnameLen(n))
Given(n) == SubSeq(n, SurnameLen(n) + 1, Len(n))

\* C4: compare_names is the comparison of the surnames when that is not
\* Equal, and the comparison of the given names when it is.
C4_SurnameThenGiven ==
    CalledNames =>
        LET by_surname == compare_chars(Surname(a), Surname(b), word_dict)
        IN  /\ res.outcome = "returned"
            /\ by_surname # EQUAL => res.value = by_surname
            /\ by_surname = EQUAL =>
                   res.value = compare_chars(Given(a), Given(b), word_dict)

\* two different compound surnames that tie, and the given names decide
C4_Witness ==
    /\ CalledNames
    /\ SurnameLen(a) = 2 /\ SurnameLen(b) = 2
    /\ Surname(a) # Surname(b)
    /\ compare_chars(Surname(a), Surname(b), word_dict) = EQUAL
    /\ res.value = LESS

\* C9: compare_names and compare_chars are total preorders: reflexive,
\* antisymmetric in the sense that swapping the arguments reverses the
\* result, and transitive.
Flip(o) == IF o = LESS THEN GREATER ELSE IF o = GREATER THEN LESS ELSE EQUAL

C9_TotalPreorder ==
    (pc = "returned" /\ res.op \in {"compare_names", "compare_chars"}) =>
        /\ res.value.aa = EQUAL
        /\ res.value.ab = Flip(res.value.ba)
        /\ (res.value.ab # GREATER /\ res.value.bc # GREATER) => res.value.ac # GREATER

----------------------------------------------------------------------------
(* Properties of a run of main *)

\* a line without its leading and trailing whitespace
Strip(s) ==
    LET keep == {i \in DOMAIN s : ~is_whitespace(s[i])}
    IN  IF keep = {} THEN <<>> ELSE SubSeq(s, Min(keep), Max(keep))

\* the trimmed, non-blank lines of names.txt, in file order
InputNames ==
    SelectSeq([i \in DOMAIN names_txt |-> Strip(names_txt[i])], LAMBDA s : s # <<>>)

Ranked(x, y) == compare_names(x, y, compound_surnames_set, word_dict).value

\* C5: of two different names that compare_names ranks Equal, the one later
\* in the input comes earlier in the output: restricted to the two names,
\* the output is the input reversed.  (It holds of every list of at most 20
\* names; see C5_ShortListsKeepTies.)
C5_TiesInReverseInputOrder ==
    pc = "ok" =>
        \A x \in Range(InputNames) : \A y \in Range(InputNames) :
            (x # y /\ Ranked(x, y) = EQUAL) =>
                Restrict(out_txt, {x, y}) = Reversed(Restrict(InputNames, {x, y}))

\* the same for the lists sort_by sorts by insertion
C5_ShortListsKeepTies ==
    (pc = "ok" /\ Len(InputNames) <= 20) => C5_TiesInReverseInputOrder

LoadSteps == {"load_word_dict", "load_compound_surnames_set", "load_names"}

\* C8: out.txt is opened and written only after the three loads succeeded
\* and the sort completed; a failed load ends the run with nothing written.
C8_OutputOnlyAfterLoadsAndSort ==
    /\ (out_opened \/ out_txt # <<>>) =>
           (LoadSteps \cup {"reverse", "sort"}) \subseteq done
    /\ (LoadSteps \cup {"reverse", "sort"}) \subseteq done =>
           /\ \A n \in Range(names) \cup Range(InputNames) :
                  Count(names, n) = Count(InputNames, n)
           /\ (Len(names) <= 20 \/ is_total_order(names, compound_surnames_set, word_dict)) =>
                  names = insertion_sort(Reversed(InputNames), compound_surnames_set, word_dict)
    /\ pc = "panicked" => (~out_opened /\ out_txt = <<>>)
    /\ pc \in {"create_output", "write_lines", "ok"} => LoadSteps \subseteq done
    /\ failed_at \in LoadSteps => (pc = "err" /\ ~out_opened /\ out_txt = <<>>)

\* a run that wrote its output, and one that stopped at a failed load
C8_Witness ==
    /\ pc = "write_lines"
    /\ out_opened
    /\ Len(out_txt) = 2
    /\ Len(names) = 3

C8_WitnessFailedLoad ==
    /\ pc = "err"
    /\ failed_at = "load_names"
    /\ ~out_opened

\* C10: on a successful run the output is a permutation of the trimmed,
\* non-blank lines of names.txt.
C10_OutputIsPermutation ==
    pc = "ok" =>
        /\ Len(out_txt) = Len(InputNames)
        /\ \A n \in Range(out_txt) \cup Range(InputNames) :
               Count(out_txt, n) = Count(InputNames, n)
        /\ \A i \in DOMAIN out_txt : out_txt[i] # <<>>

\* a blank line, a padded line and a name written twice
C10_Witness ==
    /\ pc = "ok"
    /\ \E i \in DOMAIN names_txt : Strip(names_txt[i]) = <<>>
    /\ \E i \in DOMAIN names_txt : Strip(names_txt[i]) \notin {<<>>, names_txt[i]}
    /\ \E n \in Range(out_txt) : Count(out_txt, n) = 2
    /\ Len(out_txt) = 2

====
